---- MODULE Spec2Model ----
(***************************************************************************)
(* Stay-location pipeline of ist597-finalproject:                          *)
(*   stc.py                          create_place_clusters (segmenter)     *)
(*   merge-gps.py                    concatenation of the per-subject files*)
(*   spatiotemporal-generalization.py segmentation, DBSCAN, time flooring  *)
(*   dbscan.py                       perform_DBSCAN, get_centroid          *)
(*   k-gap.py                        stretch functions, k_gap, main loop   *)
(*                                                                         *)
(* Coordinates are integers on a planar grid; the geodesic distance of     *)
(* geopy and the haversine distance of DBSCAN are the Euclidean distance   *)
(* of that grid, and every comparison of a distance is made on squares, so *)
(* that it is exact.  The unit of the grid is one metre for the segmenter  *)
(* and for k-gap.py, and 10^-6 degree (a tenth of a metre) for the         *)
(* pipeline of spatiotemporal-generalization.py, whose rounding keeps      *)
(* max_dd decimal places.  A mean is an exact fraction [n, d] in lowest    *)
(* terms.                                                                  *)
(***************************************************************************)
EXTENDS Integers, Sequences, FiniteSets, TLC

VARIABLES
    \* ---- stc.py, create_place_clusters
    data_places,         \* the rows of the trace read so far (row 0 first)
    distance_threshold,  \* parameter, metres
    time_threshold,      \* parameter, seconds
    cur_cluster,         \* list of {'loc': (lat, lon), 'time': t}
    ploc,                \* <<>> is None, <<entry>> the placeholder location
    final_clusters,      \* list of {'lat','lon','time_durations','start_time'}
    pc,                  \* "loop" inside the for loop, "done" after the return
    returned,            \* the value returned (the rows of the DataFrame)
    verdict,             \* history: the branch each row took
    cur_rows,            \* history: the row numbers of cur_cluster's members
    closed,              \* history: the row numbers of each cluster closed
                         \*          by a second out-of-range row
    \* ---- spatiotemporal-generalization.py, one pass of the parameter loop
    gen_pc,              \* "segment", "dbscan", "written" or "aborted"
    param,               \* [temporal_threshold, spatial_threshold, max_dd]
    file_order,          \* SubjectIDs of output/gps-merged.csv, in file order
    seg_results,         \* final_clusters of line 25, one entry per group
    stc_df,              \* rows of stc_df after line 32
    clusters,            \* the list `clusters` of the DBSCAN loop
    dbscan_df,           \* rows of dbscan_df as written at line 60
    \* ---- k-gap.py, one pass of the parameter loop
    gap_pc,              \* "gaps", "fill" or "written"
    fingerprint,         \* SubjectID -> get_trace(dbscan_df, SubjectID)
    gaps,                \* the list `gaps` of line 53, as far as computed
    calls,               \* history: the arguments of each call of k_gap
    matrix,              \* df of line 55: matrix[a][b] is <<>> (NaN) or <<v>>
    filled               \* passes made of the loop of lines 56-59

segVars == <<data_places, distance_threshold, time_threshold, cur_cluster,
             ploc, final_clusters, pc, returned, verdict, cur_rows, closed>>

genVars == <<gen_pc, param, file_order, seg_results, stc_df, clusters,
             dbscan_df>>

gapVars == <<gap_pc, fingerprint, gaps, calls, matrix, filled>>

vars == <<segVars, genVars, gapVars>>

-----------------------------------------------------------------------------
(* Bounds and input sets                                                   *)

MaxRows == 6      \* rows of a trace given to the segmenter alone
GenRows == 4      \* rows of each subject's trace in the merged file
MaxStays == 3     \* rows of stc_df given to the consolidation alone
MaxFingerprint == 2   \* stay records of one subject's fingerprint

\* (20,21) is 29 m from (0,0); (60,-9) is 50 m from (20,21) and more than
\* 50 m from (0,0): with either threshold one pair lies on the threshold
\* itself, and with the threshold of 29 m the three are mutually out of range
Locs == { <<0, 0>>, <<20, 21>>, <<60, -9>> }
Gaps == { 0, 10 }

\* the (distance_threshold, time_threshold) pairs create_place_clusters is
\* called with
SegParameters == { [dt |-> 29, tt |-> 5], [dt |-> 50, tt |-> 10] }

-----------------------------------------------------------------------------
(* Arithmetic helpers                                                      *)

Abs(x) == IF x < 0 THEN -x ELSE x

RECURSIVE Gcd(_, _)
Gcd(a, b) == IF b = 0 THEN Abs(a) ELSE Gcd(b, a % b)

\* the fraction num/den (den > 0) in lowest terms
Frac(num, den) ==
    LET g == Gcd(Abs(num), den)
    IN  [n |-> num \div g, d |-> den \div g]

RECURSIVE SumLat(_)
SumLat(cluster_loc) ==
    IF cluster_loc = <<>> THEN 0
    ELSE cluster_loc[1].loc[1] + SumLat(Tail(cluster_loc))

RECURSIVE SumLong(_)
SumLong(cluster_loc) ==
    IF cluster_loc = <<>> THEN 0
    ELSE cluster_loc[1].loc[2] + SumLong(Tail(cluster_loc))

-----------------------------------------------------------------------------
(* stc.py                                                                  *)

\* sum(lat) / len(lat)
get_centroid_lat(cluster_loc) == Frac(SumLat(cluster_loc), Len(cluster_loc))

\* sum(long) / len(long)
get_centroid_long(cluster_loc) == Frac(SumLong(cluster_loc), Len(cluster_loc))

\* dist_cluster_new_loc(cluster, new_loc) < threshold, on squares:
\* |centroid - loc|^2 < thr^2, multiplied by len(cluster)^2
InRange(cluster, new_loc, threshold) ==
    LET k  == Len(cluster)
        dx == SumLat(cluster) - k * new_loc.loc[1]
        dy == SumLong(cluster) - k * new_loc.loc[2]
    IN  dx * dx + dy * dy < threshold * threshold * k * k

time_duration(cluster) == cluster[Len(cluster)].time - cluster[1].time

Entry(row) == [loc |-> <<row.lat, row.lon>>, time |-> row.time]

\* the record appended to final_clusters at lines 185-186
ClusterRecord(cluster) ==
    [lat            |-> get_centroid_lat(cluster),
     lon            |-> get_centroid_long(cluster),
     time_durations |-> time_duration(cluster),
     start_time     |-> cluster[1].time]

\* the test of line 183, as >= instead of >
LongEnough_AtLeast(cluster, tt) == time_duration(cluster) >= tt

\* the test of line 183
LongEnough(cluster, tt) == time_duration(cluster) > tt

\* the branch of the loop body a row takes (lines 174, 180, 193)
Branch(cc, pl, new_loc, dt) ==
    IF InRange(cc, new_loc, dt) THEN "in"
    ELSE IF pl = <<>> THEN "out1"
    ELSE IF InRange(pl, new_loc, dt) THEN "out2in"
    ELSE "out2out"

\* the state after lines 166-167
SegStart(first_loc) ==
    [cur_cluster |-> <<Entry(first_loc)>>, ploc |-> <<>>, final_clusters |-> <<>>]

\* lines 176-177 without the assignment ploc = None
AddNewLoc_KeepPloc(st, new_loc) ==
    [st EXCEPT !.cur_cluster = Append(@, new_loc)]

\* lines 176-177 (and 195-196): new_loc joins cur_cluster, ploc is cleared
AddNewLoc(st, new_loc) ==
    [st EXCEPT !.cur_cluster = Append(@, new_loc), !.ploc = <<>>]

\* line 204 without the lookahead: the first out-of-range row closes the
\* cluster at once
HoldNewLoc_NoLookahead(st, new_loc) ==
    [cur_cluster    |-> <<new_loc>>,
     ploc           |-> <<>>,
     final_clusters |-> Append(st.final_clusters, ClusterRecord(st.cur_cluster))]

\* line 204 (and 200): new_loc becomes the placeholder location
HoldNewLoc(st, new_loc) == [st EXCEPT !.ploc = <<new_loc>>]

\* lines 190-191 without the assignment cur_cluster = []
NewVisit_NoReset(st) == Append(st.cur_cluster, st.ploc[1])

\* lines 190-191: the new cur_cluster holds ploc alone
NewVisit(st) == << st.ploc[1] >>

\* lines 183-191: cur_cluster is appended to final_clusters if it lasted
\* long enough, and is overwritten either way
CloseCluster(st, tt) ==
    [cur_cluster    |-> NewVisit(st),
     ploc           |-> st.ploc,
     final_clusters |-> IF LongEnough(st.cur_cluster, tt)
                        THEN Append(st.final_clusters,
                                    ClusterRecord(st.cur_cluster))
                        ELSE st.final_clusters]

\* one pass of the loop body, lines 172-204
SegStep(st, row, dt, tt) ==
    LET new_loc == Entry(row)
        b       == Branch(st.cur_cluster, st.ploc, new_loc, dt)
    IN  CASE b = "in"      -> AddNewLoc(st, new_loc)
          [] b = "out1"    -> HoldNewLoc(st, new_loc)
          [] b = "out2in"  -> AddNewLoc(CloseCluster(st, tt), new_loc)
          [] b = "out2out" -> HoldNewLoc(CloseCluster(st, tt), new_loc)

\* line 206 with the trailing cur_cluster flushed into the result
ReturnValue_Flush(st) ==
    Append(st.final_clusters, ClusterRecord(st.cur_cluster))

\* line 206: what the function returns once the rows are exhausted
ReturnValue(st) == st.final_clusters

RECURSIVE SegRun(_, _, _, _, _)
SegRun(st, rows, i, dt, tt) ==
    IF i > Len(rows) THEN st
    ELSE SegRun(SegStep(st, rows[i], dt, tt), rows, i + 1, dt, tt)

create_place_clusters(rows, dt, tt) ==
    ReturnValue(SegRun(SegStart(rows[1]), rows, 2, dt, tt))

-----------------------------------------------------------------------------
(* dbscan.py                                                               *)
(* A point is [lat, lon], each coordinate a fraction [n, d].  The haversine*)
(* and great-circle distances are the Euclidean distance of the grid; the  *)
(* points of one call are brought to a common denominator first.           *)

Min(S) == CHOOSE x \in S : \A y \in S : x <= y

Lcm(a, b) == (a * b) \div Gcd(a, b)

RECURSIVE ScaleOf(_)
ScaleOf(coords) ==
    IF coords = <<>> THEN 1
    ELSE Lcm(Lcm(coords[1].lat.d, coords[1].lon.d), ScaleOf(Tail(coords)))

Scaled(q, scale) == q.n * (scale \div q.d)

RECURSIVE SumScaled(_, _, _)
SumScaled(coords, scale, lat) ==
    IF coords = <<>> THEN 0
    ELSE Scaled(IF lat THEN coords[1].lat ELSE coords[1].lon, scale)
            + SumScaled(Tail(coords), scale, lat)

\* the centroid of the cluster itself (MultiPoint(cluster).centroid), which
\* need not be one of its points
get_centroid_Mean(cluster) ==
    LET s == ScaleOf(cluster)
    IN  << Frac(SumScaled(cluster, s, TRUE), s * Len(cluster)),
           Frac(SumScaled(cluster, s, FALSE), s * Len(cluster)) >>

\* dbscan.py get_centroid: the point of the cluster nearest to the
\* cluster's centroid, the first of them when several are as near
get_centroid(cluster) ==
    LET s    == ScaleOf(cluster)
        k    == Len(cluster)
        sx   == SumScaled(cluster, s, TRUE)
        sy   == SumScaled(cluster, s, FALSE)
        \* k^2 times the squared distance of point i to the centroid
        d2(i) == LET dx == k * Scaled(cluster[i].lat, s) - sx
                     dy == k * Scaled(cluster[i].lon, s) - sy
                 IN  dx * dx + dy * dy
        best == Min({ i \in 1..k : \A j \in 1..k : d2(i) <= d2(j) })
    IN  << cluster[best].lat, cluster[best].lon >>

\* sklearn's eps-neighbourhood: distance <= eps
Neighbour(coords, eps, i, j) ==
    LET s  == ScaleOf(coords)
        dx == Scaled(coords[i].lat, s) - Scaled(coords[j].lat, s)
        dy == Scaled(coords[i].lon, s) - Scaled(coords[j].lon, s)
    IN  dx * dx + dy * dy <= eps * eps * s * s

\* the points density-reachable from those of `seen`; with min_samples = 1
\* every point is a core point
RECURSIVE Reach(_, _, _)
Reach(coords, eps, seen) ==
    LET more == seen \cup { j \in 1..Len(coords) :
                              \E i \in seen : Neighbour(coords, eps, i, j) }
    IN  IF more = seen THEN seen ELSE Reach(coords, eps, more)

\* db.labels_: clusters are numbered from 0 in the order of their first point
DbscanLabels(coords, eps) ==
    LET root(i) == Min(Reach(coords, eps, {i}))
        roots   == { root(i) : i \in 1..Len(coords) }
    IN  [ i \in 1..Len(coords) |->
            Cardinality({ r \in roots : r < root(i) }) ]

\* coords[cluster_labels == n]
RECURSIVE WithLabel(_, _, _, _)
WithLabel(coords, labels, n, i) ==
    IF i > Len(coords) THEN <<>>
    ELSE (IF labels[i] = n THEN << coords[i] >> ELSE <<>>)
            \o WithLabel(coords, labels, n, i + 1)

\* perform_DBSCAN; eps is eepsilon (kilometres) in grid units
perform_DBSCAN(coords, eps) ==
    LET cluster_labels == DbscanLabels(coords, eps)
        num_clusters   == Cardinality({ cluster_labels[i] : i \in 1..Len(coords) })
    IN  [cluster_labels    |-> cluster_labels,
         centermost_points |->
            [ n \in 0..(num_clusters - 1) |->
                get_centroid(WithLabel(coords, cluster_labels, n, 1)) ]]

-----------------------------------------------------------------------------
(* Text of a number, as str() writes it and a CSV reader parses it: a      *)
(* sequence of characters, "-" digits, and "/" digits when the fraction is *)
(* not whole.                                                              *)

DigitChar == << "0", "1", "2", "3", "4", "5", "6", "7", "8", "9" >>

RECURSIVE Digits(_)
Digits(k) ==
    IF k < 10 THEN << DigitChar[k + 1] >>
    ELSE Digits(k \div 10) \o << DigitChar[(k % 10) + 1] >>

\* str(x) of a coordinate
NumStr(q) ==
    (IF q.n < 0 THEN << "-" >> ELSE <<>>)
        \o Digits(Abs(q.n))
        \o (IF q.d = 1 THEN <<>> ELSE << "/" >> \o Digits(q.d))

\* str(t) of a tuple of two coordinates: "(a, b)"
TupleStr(t) == << "(" >> \o NumStr(t[1]) \o << ",", " " >> \o NumStr(t[2]) \o << ")" >>

\* .str.strip('()'): leading and trailing parentheses removed
RECURSIVE StripParens(_)
StripParens(text) ==
    IF text = <<>> THEN text
    ELSE IF text[1] \in {"(", ")"} THEN StripParens(Tail(text))
    ELSE IF text[Len(text)] \in {"(", ")"}
         THEN StripParens(SubSeq(text, 1, Len(text) - 1))
    ELSE text

\* .str.split(', ', expand=True): columns 0 and 1
SplitCommaSpace(text) ==
    LET seps == { i \in 1..(Len(text) - 1) : text[i] = "," /\ text[i + 1] = " " }
        at   == Min(seps)
    IN  << SubSeq(text, 1, at - 1), SubSeq(text, at + 2, Len(text)) >>

-----------------------------------------------------------------------------
(* spatiotemporal-generalization.py                                        *)
(* The grid unit is 1e-6 degree, about a decimetre: spatial_threshold is   *)
(* held in grid units (0.1 m, 1 m, 10 m, 100 m), and rounding to max_dd    *)
(* decimals is rounding to a multiple of 10^(6 - max_dd) grid units.       *)

parameters ==
    << [temporal_threshold |-> 1,  spatial_threshold |-> 1,    max_dd |-> 6],
       [temporal_threshold |-> 10, spatial_threshold |-> 10,   max_dd |-> 5],
       [temporal_threshold |-> 30, spatial_threshold |-> 100,  max_dd |-> 4],
       [temporal_threshold |-> 60, spatial_threshold |-> 1000, max_dd |-> 3] >>

RECURSIVE Pow10(_)
Pow10(k) == IF k = 0 THEN 1 ELSE 10 * Pow10(k - 1)

\* round(x, max_dd) of a float column: the nearest multiple of the quantum,
\* the even one when x is half way
RoundTo(q, max_dd) ==
    LET quantum == Pow10(6 - max_dd)
        den     == q.d * quantum
        lo      == q.n \div den
        rem     == q.n - lo * den
        up      == IF 2 * rem > den THEN 1
                   ELSE IF 2 * rem < den THEN 0
                   ELSE lo % 2
    IN  Frac((lo + up) * quantum, 1)

\* lines 57-58: x // (temporal_threshold) * (temporal_threshold)
FloorTo(x, temporal_threshold) == (x \div temporal_threshold) * temporal_threshold

\* df.groupby('SubjectID'): the keys in sorted order
RECURSIVE SortedKeys(_)
SortedKeys(S) ==
    IF S = {} THEN <<>> ELSE << Min(S) >> \o SortedKeys(S \ {Min(S)})

GroupbyKeys(order) == SortedKeys({ order[i] : i \in 1..Len(order) })

\* df.SubjectID.unique(): the keys in the order of first appearance
UniqueKeys(order) == order

\* the rows pd.concat(final_clusters, keys=...) makes of the i-th result,
\* with lines 30-32 applied; `of` is the subject the rows were computed from
LabelledRows(result, key) ==
    [ j \in 1..Len(result.clusters) |->
        [SubjectID      |-> key,
         of             |-> result.of,
         lat            |-> result.clusters[j].lat,
         lon            |-> result.clusters[j].lon,
         time_durations |-> result.clusters[j].time_durations,
         start_time     |-> result.clusters[j].start_time,
         end_time       |-> result.clusters[j].start_time
                               + result.clusters[j].time_durations] ]

RECURSIVE ConcatLabelled(_, _, _)
ConcatLabelled(results, keys, i) ==
    IF i > Len(results) THEN <<>>
    ELSE LabelledRows(results[i], keys[i]) \o ConcatLabelled(results, keys, i + 1)

\* the rows of stc_df with one SubjectID, in order: one group of the
\* groupby of line 42
RECURSIVE GroupOf(_, _)
GroupOf(df, key) ==
    IF df = <<>> THEN <<>>
    ELSE (IF df[1].SubjectID = key THEN << df[1] >> ELSE <<>>)
            \o GroupOf(Tail(df), key)

\* lines 43-51 for one group
ConsolidateGroup(df_sub, spatial_threshold) ==
    LET coords == [ i \in 1..Len(df_sub) |->
                      [lat |-> df_sub[i].lat, lon |-> df_sub[i].lon] ]
        res    == perform_DBSCAN(coords, spatial_threshold)
    IN  [ i \in 1..Len(df_sub) |->
            LET label == res.cluster_labels[i]
                loc   == TupleStr(res.centermost_points[label])
                parts == SplitCommaSpace(StripParens(loc))
            IN  df_sub[i] @@ [DBScan_labels |-> label,
                              DBScan_loc    |-> loc,
                              DBSCAN_Lat    |-> parts[1],
                              DBSCAN_Lon    |-> parts[2]] ]

\* lines 56-58 for one row: lat and lon are float columns and are rounded;
\* DBSCAN_Lat and DBSCAN_Lon hold text, which DataFrame.round leaves alone
RoundAndFloor(row, p) ==
    [row EXCEPT !.lat        = RoundTo(@, p.max_dd),
                !.lon        = RoundTo(@, p.max_dd),
                !.start_time = FloorTo(@, p.temporal_threshold),
                !.end_time   = FloorTo(@, p.temporal_threshold)]

-----------------------------------------------------------------------------
(* k-gap.py                                                                *)
(* A stay record is [lat, lon, start, end]: coordinates on a grid of one   *)
(* metre, times in seconds.  A stretch is a fraction.                      *)

max_d == 100
max_t == 60

FracLeq(p, q) == p.n * q.d <= q.n * p.d

FracAdd(p, q) ==
    Frac(p.n * (Lcm(p.d, q.d) \div p.d) + q.n * (Lcm(p.d, q.d) \div q.d),
         Lcm(p.d, q.d))

\* GeodesicDistance(...).km * 1000 when it is at most max_d; the inputs are
\* chosen so that such a distance is a whole number of metres
DistWithin(s_i, s_j) ==
    LET dx == s_i.lat - s_j.lat
        dy == s_i.lon - s_j.lon
    IN  { r \in 0..max_d : r * r = dx * dx + dy * dy }

\* dist/max_d if (dist <= max_d) else 1
spatial_stretch(s_i, s_j) ==
    IF DistWithin(s_i, s_j) # {}
    THEN Frac(Min(DistWithin(s_i, s_j)), max_d)
    ELSE Frac(1, 1)

Least(a, b) == IF a <= b THEN a ELSE b
Greatest(a, b) == IF a >= b THEN a ELSE b

\* the stretch falling as the overlap grows: 1 - overlap/(max_t * 60)
temporal_stretch_Inverted(s_i, s_j) ==
    LET overlap == Least(s_i.end, s_j.end) - Greatest(s_i.start, s_j.start)
    IN  IF overlap >= 0 /\ overlap <= max_t * 60
        THEN Frac(max_t * 60 - overlap, max_t * 60)
        ELSE Frac(1, 1)

\* overlap/(max_t * 60) if (overlap >= 0) and (overlap <= max_t * 60) else 1
temporal_stretch(s_i, s_j) ==
    LET overlap == Least(s_i.end, s_j.end) - Greatest(s_i.start, s_j.start)
    IN  IF overlap >= 0 /\ overlap <= max_t * 60
        THEN Frac(overlap, max_t * 60)
        ELSE Frac(1, 1)

\* 0.5 * spatial_stretch + 0.5 * temporal_stretch
sample_stretch_effort(s_i, s_j) ==
    LET sum == FracAdd(spatial_stretch(s_i, s_j), temporal_stretch(s_i, s_j))
    IN  Frac(sum.n, 2 * sum.d)

\* min([...]) of a list of fractions
RECURSIVE MinFrac(_)
MinFrac(list) ==
    IF Len(list) = 1 THEN list[1]
    ELSE LET rest == MinFrac(Tail(list))
         IN  IF FracLeq(list[1], rest) THEN list[1] ELSE rest

RECURSIVE SumFrac(_)
SumFrac(list) ==
    IF list = <<>> THEN Frac(0, 1) ELSE FracAdd(list[1], SumFrac(Tail(list)))

\* sum(sse) / f1.shape[0]
k_gap(f1, f2) ==
    LET sse == [ i \in 1..Len(f1) |->
                   MinFrac([ j \in 1..Len(f2) |->
                               sample_stretch_effort(f1[i], f2[j]) ]) ]
        sum == SumFrac(sse)
    IN  Frac(sum.n, sum.d * Len(f1))

\* it.combinations(participants, 2)
RECURSIVE Combinations(_)
Combinations(list) ==
    IF Len(list) < 2 THEN <<>>
    ELSE [ j \in 1..(Len(list) - 1) |-> << list[1], list[j + 1] >> ]
            \o Combinations(Tail(list))

\* line 53 with f_a always first
GapArguments_AsPaired(f, a, b) == << a, b >>

\* line 53: the arguments of k_gap for the pair (a, b)
GapArguments(f, a, b) ==
    IF Len(f[a]) < Len(f[b]) THEN << a, b >> ELSE << b, a >>

-----------------------------------------------------------------------------
(* Variables of the parts a specification does not run                     *)

SegIdle ==
    /\ data_places = <<>>
    /\ distance_threshold = 0
    /\ time_threshold = 0
    /\ cur_cluster = <<>>
    /\ ploc = <<>>
    /\ final_clusters = <<>>
    /\ pc = "idle"
    /\ returned = <<>>
    /\ verdict = <<>>
    /\ cur_rows = <<>>
    /\ closed = <<>>

GenIdle ==
    /\ gen_pc = "idle"
    /\ param = parameters[1]
    /\ file_order = <<>>
    /\ seg_results = <<>>
    /\ stc_df = <<>>
    /\ clusters = <<>>
    /\ dbscan_df = <<>>

GapIdle ==
    /\ gap_pc = "idle"
    /\ fingerprint = <<>>
    /\ gaps = <<>>
    /\ calls = <<>>
    /\ matrix = <<>>
    /\ filled = 0

-----------------------------------------------------------------------------
(* The segmenter as a state machine: one action per branch of the loop     *)
(* body; the rows are read one at a time, with non-decreasing timestamps   *)
(* (merge-gps.py sorts each subject's rows by time).                       *)

SegState == [cur_cluster |-> cur_cluster, ploc |-> ploc,
             final_clusters |-> final_clusters]

NextRows == { [lat |-> l[1], lon |-> l[2],
               time |-> data_places[Len(data_places)].time + g] :
              l \in Locs, g \in Gaps }

SegInit ==
    /\ \E l \in Locs :
         /\ data_places = << [lat |-> l[1], lon |-> l[2], time |-> 0] >>
         /\ cur_cluster = SegStart(data_places[1]).cur_cluster
    /\ \E p \in SegParameters : /\ distance_threshold = p.dt
                                /\ time_threshold = p.tt
    /\ ploc = <<>>
    /\ final_clusters = <<>>
    /\ pc = "loop"
    /\ returned = <<>>
    /\ verdict = << "first" >>
    /\ cur_rows = << 1 >>
    /\ closed = <<>>
    /\ GenIdle
    /\ GapIdle

LoopBody(row, b) ==
    /\ pc = "loop"
    /\ Len(data_places) < MaxRows
    /\ Branch(cur_cluster, ploc, Entry(row), distance_threshold) = b
    /\ LET st == SegStep(SegState, row, distance_threshold, time_threshold)
       IN  /\ cur_cluster' = st.cur_cluster
           /\ ploc' = st.ploc
           /\ final_clusters' = st.final_clusters
    /\ data_places' = Append(data_places, row)
    /\ verdict' = Append(verdict, b)
    /\ LET k == Len(data_places)
       IN  /\ cur_rows' = CASE b = "in"      -> Append(cur_rows, k + 1)
                            [] b = "out1"    -> cur_rows
                            [] b = "out2in"  -> << k, k + 1 >>
                            [] b = "out2out" -> << k >>
           /\ closed' = IF b \in {"out2in", "out2out"}
                        THEN Append(closed, cur_rows)
                        ELSE closed
    /\ UNCHANGED <<distance_threshold, time_threshold, pc, returned>>
    /\ UNCHANGED <<genVars, gapVars>>

AddToCluster   == \E row \in NextRows : LoopBody(row, "in")
FirstOutlier   == \E row \in NextRows : LoopBody(row, "out1")
SecondOutlierJoins == \E row \in NextRows : LoopBody(row, "out2in")
SecondOutlierHeld  == \E row \in NextRows : LoopBody(row, "out2out")

Return ==
    /\ pc = "loop"
    /\ pc' = "done"
    /\ returned' = ReturnValue(SegState)
    /\ UNCHANGED <<data_places, distance_threshold, time_threshold,
                   cur_cluster, ploc, final_clusters, verdict, cur_rows,
                   closed>>
    /\ UNCHANGED <<genVars, gapVars>>

SegNext ==
    \/ AddToCluster
    \/ FirstOutlier
    \/ SecondOutlierJoins
    \/ SecondOutlierHeld
    \/ Return

SpecSeg == SegInit /\ [][SegNext]_vars

-----------------------------------------------------------------------------
(* spatiotemporal-generalization.py as a state machine, for one parameter  *)
(* set.  merge-gps.py wrote the merged file: one block of rows per subject,*)
(* each sorted by time, the blocks in the order glob returned the files.   *)

Subjects == { 1, 2 }

Perms(S) ==
    { f \in [1..Cardinality(S) -> S] : \A i, j \in DOMAIN f : i # j => f[i] # f[j] }

GenLocs == { <<0, 0>>, <<4, 3>>, <<1200, -1600>> }
GenStarts == { 30, 3630 }
GenGaps == { 90, 4000 }

\* the traces a subject's block of the merged file may hold
GenTraces ==
    { [ i \in 1..GenRows |->
          [lat |-> locs[i][1], lon |-> locs[i][2], time |-> t0 + (i - 1) * gap] ] :
      locs \in [1..GenRows -> GenLocs], t0 \in GenStarts, gap \in GenGaps }

GenInit ==
    /\ SegIdle
    /\ GapIdle
    /\ gen_pc = "segment"
    /\ param \in { parameters[i] : i \in 1..Len(parameters) }
    /\ file_order \in Perms(Subjects)
    /\ seg_results = <<>>
    /\ stc_df = <<>>
    /\ clusters = <<>>
    /\ dbscan_df = <<>>

\* lines 21-25: the next group of the groupby is segmented
SegmentOne ==
    /\ gen_pc = "segment"
    /\ Len(seg_results) < Len(GroupbyKeys(file_order))
    /\ \E rows \in GenTraces :
         seg_results' = Append(seg_results,
            [of             |-> GroupbyKeys(file_order)[Len(seg_results) + 1],
             time_threshold |-> param.temporal_threshold * 60,
             clusters       |-> create_place_clusters(rows,
                                    param.spatial_threshold,
                                    param.temporal_threshold * 60)])
    /\ UNCHANGED <<gen_pc, param, file_order, stc_df, clusters, dbscan_df>>
    /\ UNCHANGED <<segVars, gapVars>>

AllSegmented == Len(seg_results) = Len(GroupbyKeys(file_order))

NoClusterAtAll == \A i \in 1..Len(seg_results) : seg_results[i].clusters = <<>>

\* lines 26-32
Concat ==
    /\ gen_pc = "segment"
    /\ AllSegmented
    /\ ~NoClusterAtAll
    /\ stc_df' = ConcatLabelled(seg_results, UniqueKeys(file_order), 1)
    /\ gen_pc' = "dbscan"
    /\ UNCHANGED <<param, file_order, seg_results, clusters, dbscan_df>>
    /\ UNCHANGED <<segVars, gapVars>>

\* line 30 on a frame without columns: the run aborts
ConcatFails ==
    /\ gen_pc = "segment"
    /\ AllSegmented
    /\ NoClusterAtAll
    /\ gen_pc' = "aborted"
    /\ UNCHANGED <<param, file_order, seg_results, stc_df, clusters, dbscan_df>>
    /\ UNCHANGED <<segVars, gapVars>>

StcKeys == GroupbyKeys([ i \in 1..Len(stc_df) |-> stc_df[i].SubjectID ])

\* lines 42-53: one pass of the DBSCAN loop
ConsolidateOne ==
    /\ gen_pc = "dbscan"
    /\ Len(clusters) < Len(StcKeys)
    /\ clusters' = Append(clusters,
            ConsolidateGroup(GroupOf(stc_df, StcKeys[Len(clusters) + 1]),
                             param.spatial_threshold))
    /\ UNCHANGED <<gen_pc, param, file_order, seg_results, stc_df, dbscan_df>>
    /\ UNCHANGED <<segVars, gapVars>>

RECURSIVE Flatten(_)
Flatten(frames) ==
    IF frames = <<>> THEN <<>> ELSE frames[1] \o Flatten(Tail(frames))

\* lines 55-60
WriteClusters ==
    /\ gen_pc = "dbscan"
    /\ Len(clusters) = Len(StcKeys)
    /\ dbscan_df' = [ i \in 1..Len(Flatten(clusters)) |->
                        RoundAndFloor(Flatten(clusters)[i], param) ]
    /\ gen_pc' = "written"
    /\ UNCHANGED <<param, file_order, seg_results, stc_df, clusters>>
    /\ UNCHANGED <<segVars, gapVars>>

GenNext ==
    \/ SegmentOne
    \/ Concat
    \/ ConcatFails
    \/ ConsolidateOne
    \/ WriteClusters

SpecGen == GenInit /\ [][GenNext]_vars

-----------------------------------------------------------------------------
(* The consolidation alone (lines 34-60), from any stc_df                  *)

Whole(k) == [n |-> k, d |-> 1]

ConsPoints ==
    { [lat |-> Whole(0),        lon |-> Whole(0)],
      [lat |-> [n |-> 9, d |-> 2], lon |-> Whole(-3)],
      [lat |-> Whole(12),       lon |-> Whole(-9)],
      [lat |-> Whole(1200),     lon |-> Whole(-1600)] }

\* stc_df: the rows of subject 1, then those of subject 2, each stay longer
\* than every time_threshold and later than the one before
StaysOf(k, pts) ==
    [ i \in 1..Len(pts) |->
        [SubjectID      |-> IF i <= k THEN 1 ELSE 2,
         of             |-> IF i <= k THEN 1 ELSE 2,
         lat            |-> pts[i].lat,
         lon            |-> pts[i].lon,
         time_durations |-> 3700,
         start_time     |-> 7300 * i + 30,
         end_time       |-> 7300 * i + 3730] ]

ConsInputs ==
    UNION { { StaysOf(k, pts) : k \in 0..n, pts \in [1..n -> ConsPoints] } :
            n \in 1..MaxStays }

ConsInit ==
    /\ SegIdle
    /\ GapIdle
    /\ gen_pc = "dbscan"
    /\ param \in { parameters[i] : i \in 1..Len(parameters) }
    /\ file_order = << 1, 2 >>
    /\ seg_results = <<>>
    /\ stc_df \in ConsInputs
    /\ clusters = <<>>
    /\ dbscan_df = <<>>

ConsNext ==
    \/ ConsolidateOne
    \/ WriteClusters

SpecCons == ConsInit /\ [][ConsNext]_vars

-----------------------------------------------------------------------------
(* k-gap.py as a state machine, for one parameter set.  The file read was  *)
(* written by the DBSCAN loop, one block per SubjectID in sorted order,    *)
(* the rows of a block in the order of stc_df.                             *)

GapSubjects == << 1, 2, 3 >>

GapRecords ==
    { [lat |-> 0,   lon |-> 0,   start |-> 0,    end |-> 3600],
      [lat |-> 36,  lon |-> 48,  start |-> 1800, end |-> 5400],
      [lat |-> 300, lon |-> 400, start |-> 5400, end |-> 12600] }

\* the rows of one subject are its stays in the order the segmenter
\* emitted them, so their start times never decrease
Fingerprints ==
    { f \in UNION { [1..k -> GapRecords] : k \in 1..MaxFingerprint } :
        \A i \in 1..(Len(f) - 1) : f[i].start <= f[i + 1].start }

\* dbscan_df['SubjectID'].unique().tolist()[:10]
participants ==
    SubSeq(GapSubjects, 1, IF Len(GapSubjects) < 10 THEN Len(GapSubjects) ELSE 10)

ParticipantSet == { participants[i] : i \in 1..Len(participants) }

pairs == Combinations(participants)

GapInit ==
    /\ SegIdle
    /\ GenIdle
    /\ gap_pc = "gaps"
    /\ fingerprint \in [{ GapSubjects[i] : i \in 1..Len(GapSubjects) } -> Fingerprints]
    /\ gaps = <<>>
    /\ calls = <<>>
    /\ matrix = <<>>
    /\ filled = 0

\* line 53: the next element of the list `gaps`
ComputeGap ==
    /\ gap_pc = "gaps"
    /\ Len(gaps) < Len(pairs)
    /\ LET pair == pairs[Len(gaps) + 1]
           args == GapArguments(fingerprint, pair[1], pair[2])
       IN  /\ gaps' = Append(gaps, k_gap(fingerprint[args[1]], fingerprint[args[2]]))
           /\ calls' = Append(calls, [f1 |-> args[1], f2 |-> args[2]])
    /\ UNCHANGED <<gap_pc, fingerprint, matrix, filled>>
    /\ UNCHANGED <<segVars, genVars>>

\* line 55: an empty frame indexed by the participants
CreateMatrix ==
    /\ gap_pc = "gaps"
    /\ Len(gaps) = Len(pairs)
    /\ matrix' = [ a \in ParticipantSet |-> [ b \in ParticipantSet |-> <<>> ] ]
    /\ gap_pc' = "fill"
    /\ UNCHANGED <<fingerprint, gaps, calls, filled>>
    /\ UNCHANGED <<segVars, genVars>>

\* lines 56-59: one pass of the loop
FillPair ==
    /\ gap_pc = "fill"
    /\ filled < Len(pairs)
    /\ LET a == pairs[filled + 1][1]
           b == pairs[filled + 1][2]
       IN  matrix' = [matrix EXCEPT ![a][b] = << gaps[filled + 1] >>,
                                    ![b][a] = << gaps[filled + 1] >>]
    /\ filled' = filled + 1
    /\ UNCHANGED <<gap_pc, fingerprint, gaps, calls>>
    /\ UNCHANGED <<segVars, genVars>>

\* line 60
WriteMatrix ==
    /\ gap_pc = "fill"
    /\ filled = Len(pairs)
    /\ gap_pc' = "written"
    /\ UNCHANGED <<fingerprint, gaps, calls, matrix, filled>>
    /\ UNCHANGED <<segVars, genVars>>

GapNext ==
    \/ ComputeGap
    \/ CreateMatrix
    \/ FillPair
    \/ WriteMatrix

SpecGap == GapInit /\ [][GapNext]_vars

-----------------------------------------------------------------------------
(* Properties of create_place_clusters                                     *)

LastRow == data_places[Len(data_places)]

\* row i was out of range of cur_cluster when it was read (line 174 false)
OutOfRange(i) == verdict[i] \in {"out1", "out2in", "out2out"}

\* every row after the first was within distance_threshold of the centroid
AllInRange == \A i \in 2..Len(verdict) : verdict[i] = "in"

TraceDuration == LastRow.time - data_places[1].time

SameLoc(i, j) == /\ data_places[i].lat = data_places[j].lat
                 /\ data_places[i].lon = data_places[j].lon

RowsOf(idx) == { idx[j] : j \in 1..Len(idx) }

EntriesOf(idx) == [ j \in 1..Len(idx) |-> Entry(data_places[idx[j]]) ]

\* the history variables describe the cluster the code holds
HistoryCoupled == cur_cluster = EntriesOf(cur_rows)

RowsDuration(idx) == data_places[idx[Len(idx)]].time - data_places[idx[1]].time

RECURSIVE RowsSumLat(_)
RowsSumLat(idx) ==
    IF idx = <<>> THEN 0 ELSE data_places[idx[1]].lat + RowsSumLat(Tail(idx))

RECURSIVE RowsSumLon(_)
RowsSumLon(idx) ==
    IF idx = <<>> THEN 0 ELSE data_places[idx[1]].lon + RowsSumLon(Tail(idx))

\* C1 as stated: an all-in-range trace longer than time_threshold is
\* returned as exactly one cluster spanning the full time range, and a
\* shorter one as none.
C1_AsStated ==
    (pc = "done" /\ AllInRange) =>
        IF TraceDuration > time_threshold
        THEN /\ Len(returned) = 1
             /\ returned[1].start_time = data_places[1].time
             /\ returned[1].time_durations = TraceDuration
        ELSE returned = <<>>

\* C1 amended: for an all-in-range trace every sample is held in
\* cur_cluster, which starts at the first sample's time and spans the full
\* time range, and nothing is returned, whatever the duration.
C1_AllInRangeReturnsNothing ==
    (pc = "done" /\ AllInRange) =>
        /\ returned = <<>>
        /\ Len(cur_cluster) = Len(data_places)
        /\ cur_cluster[1].time = data_places[1].time
        /\ time_duration(cur_cluster) = TraceDuration

C1_Witness ==
    /\ pc = "done"
    /\ distance_threshold = 50
    /\ time_threshold = 10
    /\ Len(data_places) = 3
    /\ SameLoc(1, 2) /\ SameLoc(2, 3)
    /\ data_places[1].time = 0
    /\ data_places[2].time = 10
    /\ data_places[3].time = 20
    /\ AllInRange
    /\ returned = <<>>

SecondOutliers ==
    { i \in 2..Len(verdict) : verdict[i] \in {"out2in", "out2out"} }

NoTwoConsecutiveOutliers ==
    \A i \in 2..(Len(verdict) - 1) : ~(OutOfRange(i) /\ OutOfRange(i + 1))

\* C2: a cluster is appended only by a row that is a second consecutive
\* out-of-range row; the value returned is final_clusters as the loop left
\* it, so the trailing cur_cluster is dropped; a trace of one sample, or
\* without two consecutive out-of-range samples, returns nothing.
C2_TrailingClusterDropped ==
    /\ Len(final_clusters) <= Cardinality(SecondOutliers)
    /\ \A i \in SecondOutliers : i > 2 /\ OutOfRange(i - 1)
    /\ pc = "done" => returned = final_clusters
    /\ (pc = "done" /\ NoTwoConsecutiveOutliers) => returned = <<>>
    /\ (pc = "done" /\ Len(data_places) = 1) => returned = <<>>

C2_Witness ==
    /\ pc = "done"
    /\ LongEnough(cur_cluster, time_threshold)
    /\ Len(cur_cluster) >= 3
    /\ Len(returned) = 1

\* row i was a single out-of-range row followed by an in-range row
Absorbed(i) == /\ i \in 2..(Len(verdict) - 1)
               /\ verdict[i] = "out1"
               /\ verdict[i + 1] = "in"

NoiseNeverClustered ==
    \A i \in 1..Len(verdict) :
        Absorbed(i) => /\ i \notin RowsOf(cur_rows)
                       /\ \A k \in 1..Len(closed) : i \notin RowsOf(closed[k])
                       /\ (i = Len(verdict) - 1 => ploc = <<>>)

\* the trace [A, A, B, A, A], B out of range and appearing once
IsAABAA ==
    /\ Len(data_places) = 5
    /\ SameLoc(1, 2) /\ SameLoc(2, 4) /\ SameLoc(4, 5)
    /\ verdict = << "first", "in", "out1", "in", "in" >>

\* C3 as stated: the absorbed row is in no cluster, and for [A,A,B,A,A] the
\* segmenter yields one cluster.
C3_AsStated ==
    /\ HistoryCoupled
    /\ NoiseNeverClustered
    /\ (pc = "done" /\ IsAABAA /\ LongEnough(cur_cluster, time_threshold))
          => Len(returned) = 1

\* C3 amended: a first out-of-range row changes only ploc; an in-range row
\* right after it is appended to the unchanged cur_cluster and clears ploc;
\* the out-of-range row is in no cluster, then or later; for [A,A,B,A,A]
\* cur_cluster ends as the four A rows, and nothing is appended or returned.
C3_LookaheadAbsorption ==
    [][ /\ verdict' = Append(verdict, "out1") =>
             /\ cur_cluster' = cur_cluster
             /\ final_clusters' = final_clusters
             /\ ploc' = << Entry(data_places'[Len(data_places')]) >>
        /\ (verdict[Len(verdict)] = "out1" /\ verdict' = Append(verdict, "in")) =>
             /\ cur_cluster' =
                    Append(cur_cluster, Entry(data_places'[Len(data_places')]))
             /\ final_clusters' = final_clusters
             /\ ploc' = <<>>
        /\ HistoryCoupled'
        /\ NoiseNeverClustered'
        /\ IsAABAA' => /\ cur_rows' = << 1, 2, 4, 5 >>
                        /\ ploc' = <<>>
                        /\ final_clusters' = <<>>
                        /\ (pc' = "done" => returned' = <<>>)
      ]_vars

C3_Witness ==
    /\ pc = "done"
    /\ IsAABAA
    /\ ~SameLoc(1, 3)
    /\ Len(cur_cluster) = 4
    /\ ploc = <<>>

LongRows(idx) == RowsDuration(idx) > time_threshold

\* the closed clusters that lasted longer than time_threshold
Emitted == SelectSeq(closed, LongRows)

C10_TimeOrdered ==
    /\ Len(cur_cluster) >= 1
    /\ \A i, j \in 1..Len(cur_cluster) :
         i < j => cur_cluster[i].time <= cur_cluster[j].time
    /\ \A k \in 1..Len(final_clusters) : final_clusters[k].time_durations >= 0
    /\ \A k \in 1..(Len(final_clusters) - 1) :
         final_clusters[k].start_time + final_clusters[k].time_durations
            <= final_clusters[k + 1].start_time

C10_Witness ==
    /\ Len(final_clusters) = 2
    /\ Len(cur_cluster) = 2
    /\ final_clusters[1].start_time + final_clusters[1].time_durations
          = final_clusters[2].start_time

-----------------------------------------------------------------------------
(* Properties of spatiotemporal-generalization.py                          *)

\* C9: every row of stc_df carries the SubjectID of the trace its cluster
\* was computed from.
C9_AsStated ==
    \A i \in 1..Len(stc_df) : stc_df[i].SubjectID = stc_df[i].of

\* the largest multiple of step not exceeding x
IsFloorOf(y, x, step) == y % step = 0 /\ y <= x /\ x < y + step

\* C6: in the file written, start_time and end_time are the start and the
\* end of the stay floored to a multiple of the time_threshold the
\* segmenter was called with.
C6_AsStated ==
    gen_pc = "written" =>
        \A key \in Subjects :
            \A i \in 1..Len(GroupOf(dbscan_df, key)) :
                LET out == GroupOf(dbscan_df, key)[i]
                    inp == GroupOf(stc_df, key)[i]
                    tt  == seg_results[1].time_threshold
                IN  /\ IsFloorOf(out.start_time, inp.start_time, tt)
                    /\ IsFloorOf(out.end_time,
                                 inp.start_time + inp.time_durations, tt)

DigitValue(c) == CHOOSE k \in 0..9 : DigitChar[k + 1] = c

RECURSIVE ParseDigits(_)
ParseDigits(text) ==
    IF text = <<>> THEN 0
    ELSE 10 * ParseDigits(SubSeq(text, 1, Len(text) - 1))
            + DigitValue(text[Len(text)])

\* the number a text denotes
ParseNum(text) ==
    LET neg   == text[1] = "-"
        body  == IF neg THEN Tail(text) ELSE text
        slash == { i \in 1..Len(body) : body[i] = "/" }
        num   == IF slash = {} THEN body ELSE SubSeq(body, 1, Min(slash) - 1)
        den   == IF slash = {} THEN << "1" >>
                 ELSE SubSeq(body, Min(slash) + 1, Len(body))
    IN  [n |-> (IF neg THEN -1 ELSE 1) * ParseDigits(num), d |-> ParseDigits(den)]

\* the rows of `out` in the DBSCAN group of row i
GroupMates(out, i) ==
    { m \in 1..Len(out) : out[m].DBScan_labels = out[i].DBScan_labels }

\* |G|^2 scale^2 times the squared distance of inp[j] to the mean of the
\* rows G of inp
DistToMean(inp, G, j) ==
    LET pts == [ m \in 1..Len(inp) |-> [lat |-> inp[m].lat, lon |-> inp[m].lon] ]
        sc  == ScaleOf(pts)
        sum(S, lat) ==
            LET RECURSIVE acc(_)
                acc(T) == IF T = {} THEN 0
                          ELSE LET m == Min(T)
                               IN  Scaled(IF lat THEN pts[m].lat ELSE pts[m].lon, sc)
                                      + acc(T \ {m})
            IN  acc(S)
        dx  == Cardinality(G) * Scaled(pts[j].lat, sc) - sum(G, TRUE)
        dy  == Cardinality(G) * Scaled(pts[j].lon, sc) - sum(G, FALSE)
    IN  dx * dx + dy * dy

\* every row of `out` has the coordinates of a row of `inp` of its subject
\* and DBSCAN group, the one nearest to the group's mean
ConsolidatedFromMember(out, inp) ==
    /\ Len(out) = Len(inp)
    /\ \A i \in 1..Len(out) :
         \E j \in GroupMates(out, i) :
            /\ inp[j].SubjectID = out[i].SubjectID
            /\ ParseNum(out[i].DBSCAN_Lat) = inp[j].lat
            /\ ParseNum(out[i].DBSCAN_Lon) = inp[j].lon
            /\ \A m \in GroupMates(out, i) :
                  DistToMean(inp, GroupMates(out, i), j)
                     <= DistToMean(inp, GroupMates(out, i), m)

-----------------------------------------------------------------------------
(* Properties of k-gap.py                                                  *)

PairIndex(a, b) ==
    { i \in 1..Len(pairs) : { pairs[i][1], pairs[i][2] } = { a, b } }

\* C7: every unordered pair of distinct participants is one entry of pairs,
\* k_gap is called once for it, with the fingerprint of fewer or equally
\* many records first; a pass of the loop writes that value to both cells,
\* so that after the loop the matrix is symmetric with the value of the
\* pair in both cells, and no diagonal cell is ever written.
C7_SymmetricMatrix ==
    /\ \A a, b \in ParticipantSet : a # b => Cardinality(PairIndex(a, b)) = 1
    /\ Len(calls) = Len(gaps) /\ Len(gaps) <= Len(pairs)
    /\ \A i \in 1..Len(calls) :
         /\ { calls[i].f1, calls[i].f2 } = { pairs[i][1], pairs[i][2] }
         /\ Len(fingerprint[calls[i].f1]) <= Len(fingerprint[calls[i].f2])
    /\ gap_pc \in {"fill", "written"} =>
         /\ \A a \in ParticipantSet : matrix[a][a] = <<>>
         /\ \A a, b \in ParticipantSet : matrix[a][b] = matrix[b][a]
         /\ \A i \in 1..filled :
               matrix[pairs[i][1]][pairs[i][2]] = << gaps[i] >>
    /\ gap_pc = "written" =>
         \A a, b \in ParticipantSet : a # b => matrix[a][b] # <<>>

\* a pair whose k_gap depends on the order of its arguments
C7_Witness ==
    /\ gap_pc = "written"
    /\ Len(fingerprint[1]) > Len(fingerprint[2])
    /\ calls[1] = [f1 |-> 2, f2 |-> 1]
    /\ k_gap(fingerprint[1], fingerprint[2]) # k_gap(fingerprint[2], fingerprint[1])
    /\ matrix[1][2] = << k_gap(fingerprint[2], fingerprint[1]) >>
    /\ matrix[2][1] = matrix[1][2]

\* the stretches as the formulas state them, as numerators over max_d,
\* max_t * 60, and 2 * max_d * max_t * 60
StatedSpatial(a, b) ==
    LET d2 == (a.lat - b.lat) * (a.lat - b.lat) + (a.lon - b.lon) * (a.lon - b.lon)
    IN  IF \E r \in 0..max_d : r * r = d2
        THEN CHOOSE r \in 0..max_d : r * r = d2
        ELSE max_d

Overlap(a, b) ==
    (IF a.end < b.end THEN a.end ELSE b.end)
        - (IF a.start > b.start THEN a.start ELSE b.start)

StatedTemporal(a, b) ==
    IF 0 <= Overlap(a, b) /\ Overlap(a, b) <= max_t * 60
    THEN Overlap(a, b)
    ELSE max_t * 60

StatedEffort(a, b) ==
    StatedSpatial(a, b) * (max_t * 60) + StatedTemporal(a, b) * max_d

RECURSIVE StatedKGap(_, _)
StatedKGap(f1, f2) ==
    IF f1 = <<>> THEN 0
    ELSE Min({ StatedEffort(f1[1], f2[j]) : j \in 1..Len(f2) })
            + StatedKGap(Tail(f1), f2)

\* one record each, the same coordinates, an overlap of max_t * 60
IsScenario(f1, f2) ==
    /\ Len(f1) = 1 /\ Len(f2) = 1
    /\ f1[1].lat = f2[1].lat /\ f1[1].lon = f2[1].lon
    /\ Overlap(f1[1], f2[1]) = max_t * 60

\* C8: every value computed by k_gap is the mean over f1 of the least
\* 0.5 * spatial + 0.5 * temporal over f2, with the stretches as stated;
\* in the scenario of one identical record each it is 1/2.
C8_LiteralFormulas ==
    \A i \in 1..Len(gaps) :
        LET f1 == fingerprint[calls[i].f1]
            f2 == fingerprint[calls[i].f2]
        IN  /\ gaps[i].d > 0
            /\ gaps[i].n * (2 * max_d * max_t * 60 * Len(f1))
                  = gaps[i].d * StatedKGap(f1, f2)
            /\ IsScenario(f1, f2) => gaps[i] = [n |-> 1, d |-> 2]

C8_Witness ==
    /\ gap_pc = "written"
    /\ IsScenario(fingerprint[1], fingerprint[2])
    /\ matrix[1][2] = << [n |-> 1, d |-> 2] >>
    /\ \E a \in ParticipantSet : Len(fingerprint[a]) = 2
    /\ \E i \in 1..Len(gaps) : gaps[i] = [n |-> 11, d |-> 20]

====
